---- MODULE Spec2Model ----
(***************************************************************************)
(* A model of the Merkle Patricia Trie of merkle-trie-rs: the node type,   *)
(* the nibble codec, the RLP node codec, and the trie engine (insert, get, *)
(* root_hash, get_proof, verify_proof).                                    *)
(*                                                                         *)
(* Byte strings and nibble paths are sequences of naturals.  Rust slices   *)
(* are 0-based; the helpers At, Take and Drop keep the source's indices.   *)
(* The only operation that changes the trie is insert; get, root_hash,     *)
(* get_proof and verify_proof take &self (or no self) and are operators on *)
(* the current root.                                                       *)
(***************************************************************************)
EXTENDS Integers, Sequences, FiniteSets, TLC

\* root, kv, inserts: the trie, the key -> value map its inserts amount to,
\* and the number of insert calls.  call, ret: the arguments and the results
\* of a call of one of the functions that take no trie (encode_compact,
\* Node::decode, verify_proof), Idle when there is none.
VARIABLES root, kv, inserts, call, ret

vars == <<root, kv, inserts, call, ret>>

(***************************************************************************)
(* Bounds and inputs                                                       *)
(***************************************************************************)

\* the number of insert calls in one run
MaxInserts == 3

\* the length of the long value: with a two-byte compact path the Leaf
\* encoding is 32 bytes long (hashed as a child), with a one-byte compact
\* path it is 30 bytes long (inlined as a child)
LongValueLen == 27

LongValue == [i \in 1..LongValueLen |-> 170]

\* the values given to insert: the empty value, a one-byte value that RLP
\* prefixes with 0x81, and the long value
Values == {<<>>, <<200>>, LongValue}

\* the keys given to insert, get, get_proof and verify_proof (byte strings):
\* "", 10, 1001, 1010, 1011, 1020, 2010 (hex)
KeyList == <<
    <<>>,
    <<16>>,
    <<16, 1>>,
    <<16, 16>>,
    <<16, 17>>,
    <<16, 32>>,
    <<32, 16>> >>

Keys == {KeyList[i] : i \in 1..Len(KeyList)}

\* the nibble paths given to the path codec: every sequence of at most
\* MaxPathLen nibbles
MaxPathLen == 3

Nibble == 0..15

Paths == UNION {[1..n -> Nibble] : n \in 0..MaxPathLen}

(***************************************************************************)
(* Slices                                                                  *)
(***************************************************************************)

At(s, i) == s[i + 1]

Take(s, n) == SubSeq(s, 1, n)

Drop(s, n) == SubSeq(s, n + 1, Len(s))

Min(a, b) == IF a < b THEN a ELSE b

(***************************************************************************)
(* Option<Vec<u8>>                                                         *)
(***************************************************************************)

None == [some |-> FALSE]

Some(v) == [some |-> TRUE, val |-> v]

(***************************************************************************)
(* enum Node                                                               *)
(***************************************************************************)

Null == [type |-> "Null"]

Leaf(k, v) == [type |-> "Leaf", key |-> k, value |-> v]

Extension(p, n) == [type |-> "Extension", prefix |-> p, next |-> n]

Branch(c, v) == [type |-> "Branch", children |-> c, value |-> v]

\* [Box::new(Node::Null); 16]
NullChildren == [i \in 0..15 |-> Null]

(***************************************************************************)
(* Nibbles                                                                 *)
(***************************************************************************)

\* Nibbles::from_raw: the high nibble of each byte, then its low nibble
from_raw(data) ==
    [i \in 1..(2 * Len(data)) |->
        IF i % 2 = 1 THEN data[(i + 1) \div 2] \div 16
                     ELSE data[i \div 2] % 16]

RECURSIVE CommonPrefixFrom(_, _, _)
CommonPrefixFrom(a, b, i) ==
    IF i < Min(Len(a), Len(b)) /\ At(a, i) = At(b, i)
        THEN CommonPrefixFrom(a, b, i + 1)
        ELSE i

\* a common_prefix_len that counts one position more than the loop does
common_prefix_len_OffByOne(a, b) == CommonPrefixFrom(a, b, 0) + 1

\* EthTrie::common_prefix_len
common_prefix_len(a, b) == CommonPrefixFrom(a, b, 0)

(***************************************************************************)
(* EthTrie::insert_at                                                      *)
(***************************************************************************)

RECURSIVE insert_at(_, _, _)

\* a Null arm that stores nothing for an empty value
insert_at_Null_SkipsEmptyValue(nibbles, value) ==
    IF value = <<>> THEN Null ELSE Leaf(nibbles, value)

\* Null arm
insert_at_Null(nibbles, value) == Leaf(nibbles, value)

\* a Leaf arm that loses the value of a Leaf with an empty key
insert_at_Leaf_disjoint_DropsLeafValue(leaf_key, leaf_value, nibbles, value) ==
    IF leaf_key = <<>>
        THEN Branch([NullChildren EXCEPT
                        ![At(nibbles, 0)] = Leaf(Drop(nibbles, 1), value)],
                    None)
        ELSE LET children ==
                     [NullChildren EXCEPT
                        ![At(leaf_key, 0)] = Leaf(Drop(leaf_key, 1), leaf_value)]
             IN  IF nibbles = <<>>
                     THEN Branch(children, Some(value))
                     ELSE Branch([children EXCEPT
                                    ![At(nibbles, 0)] =
                                        insert_at(children[At(nibbles, 0)],
                                                 Drop(nibbles, 1), value)],
                                 None)

\* Leaf arm, common_len == 0 and the keys differ
insert_at_Leaf_disjoint(leaf_key, leaf_value, nibbles, value) ==
    IF leaf_key = <<>>
        THEN Branch([NullChildren EXCEPT
                        ![At(nibbles, 0)] = Leaf(Drop(nibbles, 1), value)],
                    Some(leaf_value))
        ELSE LET children ==
                     [NullChildren EXCEPT
                        ![At(leaf_key, 0)] = Leaf(Drop(leaf_key, 1), leaf_value)]
             IN  IF nibbles = <<>>
                     THEN Branch(children, Some(value))
                     ELSE Branch([children EXCEPT
                                    ![At(nibbles, 0)] =
                                        insert_at(children[At(nibbles, 0)],
                                                 Drop(nibbles, 1), value)],
                                 None)

\* a wrap that drops the shared prefix
WrapShared_DropsPrefix(common_len, shared, branch) == branch

\* the tail of the Leaf and Extension arms: the Branch alone when
\* common_len == 0, else under an Extension holding the shared prefix
WrapShared(common_len, shared, branch) ==
    IF common_len > 0 THEN Extension(shared, branch) ELSE branch

\* Leaf arm, 0 < common_len and the keys differ
insert_at_Leaf_shared(leaf_key, leaf_value, nibbles, value, common_len) ==
    LET shared == Take(nibbles, common_len)
        leaf_remainder == Drop(leaf_key, common_len)
        nibbles_remainder == Drop(nibbles, common_len)
    IN  IF leaf_remainder = <<>>
            THEN IF nibbles_remainder = <<>>
                     THEN Leaf(shared, value)
                     ELSE WrapShared(common_len, shared,
                              Branch([NullChildren EXCEPT
                                        ![At(nibbles_remainder, 0)] =
                                            Leaf(Drop(nibbles_remainder, 1), value)],
                                     Some(leaf_value)))
            ELSE LET children ==
                         [NullChildren EXCEPT
                            ![At(leaf_remainder, 0)] =
                                Leaf(Drop(leaf_remainder, 1), leaf_value)]
                 IN  IF nibbles_remainder = <<>>
                         THEN WrapShared(common_len, shared,
                                         Branch(children, Some(value)))
                         ELSE WrapShared(common_len, shared,
                                  Branch([children EXCEPT
                                            ![At(nibbles_remainder, 0)] =
                                                Leaf(Drop(nibbles_remainder, 1), value)],
                                         None))

\* a Leaf arm that overwrites as soon as the Leaf's key is a prefix of the
\* inserted key
insert_at_Leaf_OverwritesOnPrefix(leaf_key, leaf_value, nibbles, value) ==
    LET common_len == common_prefix_len(leaf_key, nibbles)
    IN  IF common_len = Len(leaf_key)
            THEN Leaf(leaf_key, value)
            ELSE IF common_len = 0
                THEN insert_at_Leaf_disjoint(leaf_key, leaf_value, nibbles, value)
                ELSE insert_at_Leaf_shared(leaf_key, leaf_value, nibbles, value,
                                        common_len)

\* Leaf arm
insert_at_Leaf(leaf_key, leaf_value, nibbles, value) ==
    LET common_len == common_prefix_len(leaf_key, nibbles)
    IN  IF common_len = Len(leaf_key) /\ common_len = Len(nibbles)
            THEN Leaf(leaf_key, value)
            ELSE IF common_len = 0
                THEN insert_at_Leaf_disjoint(leaf_key, leaf_value, nibbles, value)
                ELSE insert_at_Leaf_shared(leaf_key, leaf_value, nibbles, value,
                                        common_len)

\* a split that keeps an Extension over a remainder of one nibble
split_child_KeepsExtension(ext_remainder, next) ==
    Extension(Drop(ext_remainder, 1), next)

\* Extension arm, split: the node put at children[ext_remainder[0]]
split_child(ext_remainder, next) ==
    IF Len(ext_remainder) = 1
        THEN next
        ELSE Extension(Drop(ext_remainder, 1), next)

\* a split that leaves the value slot of the new Branch empty when the
\* inserted key ends at it
insert_at_Extension_split_LosesValue(prefix, next, nibbles, value, common_len) ==
    LET shared == Take(prefix, common_len)
        ext_remainder == Drop(prefix, common_len)
        nibbles_remainder == Drop(nibbles, common_len)
        children == [NullChildren EXCEPT
                        ![At(ext_remainder, 0)] = split_child(ext_remainder, next)]
    IN  IF nibbles_remainder = <<>>
            THEN WrapShared(common_len, shared, Branch(children, None))
            ELSE WrapShared(common_len, shared,
                     Branch([children EXCEPT
                               ![At(nibbles_remainder, 0)] =
                                   Leaf(Drop(nibbles_remainder, 1), value)],
                            None))

\* Extension arm, common_len < prefix.len(): split
insert_at_Extension_split(prefix, next, nibbles, value, common_len) ==
    LET shared == Take(prefix, common_len)
        ext_remainder == Drop(prefix, common_len)
        nibbles_remainder == Drop(nibbles, common_len)
        children == [NullChildren EXCEPT
                        ![At(ext_remainder, 0)] = split_child(ext_remainder, next)]
    IN  IF nibbles_remainder = <<>>
            THEN WrapShared(common_len, shared, Branch(children, Some(value)))
            ELSE WrapShared(common_len, shared,
                     Branch([children EXCEPT
                               ![At(nibbles_remainder, 0)] =
                                   Leaf(Drop(nibbles_remainder, 1), value)],
                            None))

\* Extension arm
insert_at_Extension(prefix, next, nibbles, value) ==
    LET common_len == common_prefix_len(prefix, nibbles)
    IN  IF common_len = Len(prefix)
            THEN Extension(prefix, insert_at(next, Drop(nibbles, common_len), value))
            ELSE insert_at_Extension_split(prefix, next, nibbles, value, common_len)

\* a Branch arm that rebuilds the Branch around the child it descends into
\* and loses the other children
insert_at_Branch_ClearsSiblings(children, branch_value, nibbles, value) ==
    IF nibbles = <<>>
        THEN Branch(children, Some(value))
        ELSE LET idx == At(nibbles, 0)
             IN  Branch([NullChildren EXCEPT
                            ![idx] = insert_at(children[idx], Drop(nibbles, 1), value)],
                        branch_value)

\* a Branch arm that loses the Branch's value when it descends
insert_at_Branch_DropsValue(children, branch_value, nibbles, value) ==
    IF nibbles = <<>>
        THEN Branch(children, Some(value))
        ELSE LET idx == At(nibbles, 0)
             IN  Branch([children EXCEPT
                            ![idx] = insert_at(children[idx], Drop(nibbles, 1), value)],
                        None)

\* Branch arm
insert_at_Branch(children, branch_value, nibbles, value) ==
    IF nibbles = <<>>
        THEN Branch(children, Some(value))
        ELSE LET idx == At(nibbles, 0)
             IN  Branch([children EXCEPT
                            ![idx] = insert_at(children[idx], Drop(nibbles, 1), value)],
                        branch_value)

insert_at(node, nibbles, value) ==
    CASE node.type = "Null" -> insert_at_Null(nibbles, value)
      [] node.type = "Leaf" -> insert_at_Leaf(node.key, node.value, nibbles, value)
      [] node.type = "Extension" ->
            insert_at_Extension(node.prefix, node.next, nibbles, value)
      [] node.type = "Branch" ->
            insert_at_Branch(node.children, node.value, nibbles, value)

(***************************************************************************)
(* EthTrie::get_at and EthTrie::get                                        *)
(***************************************************************************)

RECURSIVE get_at(_, _)

\* Leaf arm
get_at_Leaf(key, value, nibbles) ==
    IF key = nibbles THEN Some(value) ELSE None

\* Extension arm
get_at_Extension(prefix, next, nibbles) ==
    IF Len(nibbles) < Len(prefix)
        THEN None
        ELSE IF Take(nibbles, Len(prefix)) = prefix
            THEN get_at(next, Drop(nibbles, Len(prefix)))
            ELSE None

\* Branch arm
get_at_Branch(children, value, nibbles) ==
    IF nibbles = <<>>
        THEN value
        ELSE get_at(children[At(nibbles, 0)], Drop(nibbles, 1))

get_at(node, nibbles) ==
    CASE node.type = "Null" -> None
      [] node.type = "Leaf" -> get_at_Leaf(node.key, node.value, nibbles)
      [] node.type = "Extension" -> get_at_Extension(node.prefix, node.next, nibbles)
      [] node.type = "Branch" -> get_at_Branch(node.children, node.value, nibbles)

get(key) == get_at(root, from_raw(key))

(***************************************************************************)
(* nibbles::encode_compact and Node::decode_compact                        *)
(***************************************************************************)

\* pairs packed low nibble first
RECURSIVE PackPairs_LowNibbleFirst(_, _)
PackPairs_LowNibbleFirst(nibbles, i) ==
    IF i >= Len(nibbles)
        THEN <<>>
        ELSE <<(At(nibbles, i + 1) * 16 + At(nibbles, i)) % 256>>
                 \o PackPairs_LowNibbleFirst(nibbles, i + 2)

\* the bytes pushed by `for i in (from..len).step_by(2)`
RECURSIVE PackPairs(_, _)
PackPairs(nibbles, i) ==
    IF i >= Len(nibbles)
        THEN <<>>
        ELSE <<(At(nibbles, i) * 16 + At(nibbles, i + 1)) % 256>>
                 \o PackPairs(nibbles, i + 2)

\* an encode_compact that sets the leaf flag on paths of even length only
encode_compact_OddIsExtension(nibbles, is_leaf) ==
    IF Len(nibbles) % 2 = 1
        THEN <<16 + At(nibbles, 0)>> \o PackPairs(nibbles, 1)
        ELSE <<IF is_leaf THEN 32 ELSE 0>> \o PackPairs(nibbles, 0)

\* nibbles::encode_compact
encode_compact(nibbles, is_leaf) ==
    IF Len(nibbles) % 2 = 1
        THEN <<(IF is_leaf THEN 3 ELSE 1) * 16 + At(nibbles, 0)>>
                 \o PackPairs(nibbles, 1)
        ELSE <<IF is_leaf THEN 32 ELSE 0>> \o PackPairs(nibbles, 0)

\* the nibbles pushed by `for &byte in &compact[1..]`
RECURSIVE UnpackPairs(_, _)
UnpackPairs(compact, i) ==
    IF i >= Len(compact)
        THEN <<>>
        ELSE <<At(compact, i) \div 16, At(compact, i) % 16>>
                 \o UnpackPairs(compact, i + 1)

\* a decode_compact that never reads the nibble held in the first byte
decode_compact_IgnoresParity(compact) ==
    IF compact = <<>> THEN <<>> ELSE UnpackPairs(compact, 1)

\* Node::decode_compact
decode_compact(compact) ==
    IF compact = <<>>
        THEN <<>>
        ELSE LET first_byte == At(compact, 0)
                 prefix == first_byte \div 16
             IN  (IF prefix % 2 /= 0 THEN <<first_byte % 16>> ELSE <<>>)
                     \o UnpackPairs(compact, 1)

(***************************************************************************)
(* Keccak-256 and RLP, as the node codec uses them                         *)
(***************************************************************************)

\* the weighted byte at position i, 0 past position hi
Term(data, i, hi) ==
    IF i > hi THEN 0 ELSE (data[i] + 1) * ((i * i * 31 + i * 17 + 1) % 8191)

\* the weighted sum of data[lo..hi]: eight bytes at a time, halving longer
\* ranges
RECURSIVE Absorb(_, _, _)
Absorb(data, lo, hi) ==
    IF hi - lo < 8
        THEN (Term(data, lo, hi) + Term(data, lo + 1, hi)
                + Term(data, lo + 2, hi) + Term(data, lo + 3, hi)
                + Term(data, lo + 4, hi) + Term(data, lo + 5, hi)
                + Term(data, lo + 6, hi) + Term(data, lo + 7, hi)) % 8388593
        ELSE LET mid == (lo + hi) \div 2
             IN  (Absorb(data, lo, mid) + Absorb(data, mid + 1, hi)) % 8388593

\* Keccak-f[1600]: the rotation offsets of rho, indexed [x][y]
RotationOffsets ==
    << <<0, 36, 3, 41, 18>>, <<1, 44, 10, 45, 2>>, <<62, 6, 43, 15, 61>>,
       <<28, 55, 25, 21, 56>>, <<27, 20, 39, 8, 14>> >>

\* the bit positions set in the round constant of each of the 24 rounds
RoundConstants ==
    << {0}, {1, 7, 15}, {1, 3, 7, 15, 63}, {15, 31, 63}, {0, 1, 3, 7, 15},
       {0, 31}, {0, 7, 15, 31, 63}, {0, 3, 15, 63}, {1, 3, 7}, {3, 7},
       {0, 3, 15, 31}, {1, 3, 31}, {0, 1, 3, 7, 15, 31}, {0, 1, 3, 7, 63},
       {0, 3, 7, 15, 63}, {0, 1, 15, 63}, {1, 15, 63}, {7, 63}, {1, 3, 15},
       {1, 3, 31, 63}, {0, 7, 15, 31, 63}, {7, 15, 63}, {0, 31},
       {3, 15, 31, 63} >>

\* bit z of lane (x, y) in a state of 1600 bits
Lane(A, x, y, z) == A[64 * (x + 5 * y) + z + 1]

\* one round (theta, rho and pi, chi, iota) on a state of 1600 bits
KeccakRound(A, r) ==
    LET C == [j \in 1..320 |->
                 LET x == (j - 1) \div 64
                     z == (j - 1) % 64
                 IN  (Lane(A, x, 0, z) + Lane(A, x, 1, z) + Lane(A, x, 2, z)
                        + Lane(A, x, 3, z) + Lane(A, x, 4, z)) % 2] \o <<>>
        theta == [i \in 1..1600 |->
                     LET x == ((i - 1) \div 64) % 5
                         z == (i - 1) % 64
                     IN  (A[i] + C[64 * ((x + 4) % 5) + z + 1]
                            + C[64 * ((x + 1) % 5) + ((z + 63) % 64) + 1]) % 2]
                 \o <<>>
        rhopi == [i \in 1..1600 |->
                     LET X == ((i - 1) \div 64) % 5
                         Y == (i - 1) \div 320
                         z == (i - 1) % 64
                         x == (X + 3 * Y) % 5
                         y == X
                         n == RotationOffsets[x + 1][y + 1]
                     IN  Lane(theta, x, y, (z + 64 - n) % 64)] \o <<>>
    IN  [i \in 1..1600 |->
            LET x == ((i - 1) \div 64) % 5
                y == (i - 1) \div 320
                z == (i - 1) % 64
                chi == (rhopi[i] + (1 - Lane(rhopi, (x + 1) % 5, y, z))
                                       * Lane(rhopi, (x + 2) % 5, y, z)) % 2
            IN  IF x = 0 /\ y = 0 /\ z \in RoundConstants[r + 1]
                    THEN 1 - chi
                    ELSE chi] \o <<>>

\* the 24 rounds
RECURSIVE KeccakF(_, _)
KeccakF(A, r) == IF r = 24 THEN A ELSE KeccakF(KeccakRound(A, r), r + 1)

\* pad10*1 with the Keccak domain byte 0x01, to a multiple of the 136-byte rate
Pad(data) ==
    LET fill == 136 - (Len(data) % 136)
    IN  data \o [j \in 1..fill |->
                    (IF j = 1 THEN 1 ELSE 0) + (IF j = fill THEN 128 ELSE 0)]

\* absorb the padded input block by block
RECURSIVE Sponge(_, _, _)
Sponge(A, padded, offset) ==
    IF offset >= Len(padded)
        THEN A
        ELSE Sponge(KeccakF([i \in 1..1600 |->
                                IF i <= 1088
                                    THEN (A[i] + (padded[offset + ((i - 1) \div 8) + 1]
                                                     \div (2 ^ ((i - 1) % 8)))) % 2
                                    ELSE A[i]] \o <<>>, 0),
                    padded, offset + 136)

\* Keccak-256 proper: the first 32 bytes squeezed
KeccakSponge(data) ==
    LET A == Sponge([i \in 1..1600 |-> 0], Pad(data), 0)
    IN  [j \in 1..32 |->
            A[8 * j - 7] + 2 * A[8 * j - 6] + 4 * A[8 * j - 5] + 8 * A[8 * j - 4]
              + 16 * A[8 * j - 3] + 32 * A[8 * j - 2] + 64 * A[8 * j - 1]
              + 128 * A[8 * j]]

\* the digest of the encoding of Node::Null, the one-byte string 0x80
NullDigest == KeccakSponge(<<128>>) \o <<>>

\* Keccak::v256 update + finalize: a 32-byte digest that is a function of
\* the input bytes alone.  The digest of the byte 0x80 is the one the
\* sponge gives; every other input gets a stand-in (a weighted checksum of
\* the bytes and their number, spread over 32 bytes).
Keccak256(data) ==
    IF data = <<128>>
        THEN NullDigest
        ELSE LET acc == (Absorb(data, 1, Len(data)) + 131 * Len(data) + 1)
                            % 8388593
             IN  [i \in 1..32 |->
                     CASE i % 3 = 1 -> (acc + (i \div 3)) % 256
                       [] i % 3 = 2 -> ((acc \div 256) + (i \div 3)) % 256
                       [] i % 3 = 0 -> ((acc \div 65536) + (i \div 3)) % 256]

\* the big-endian bytes of a length
RECURSIVE BigEndian(_)
BigEndian(n) ==
    IF n < 256 THEN <<n>> ELSE BigEndian(n \div 256) \o <<n % 256>>

\* the RLP header of a payload of `len` bytes: offset 0x80 for a string,
\* 0xc0 for a list
RlpHeader(len, offset) ==
    IF len < 56
        THEN <<offset + len>>
        ELSE <<offset + 55 + Len(BigEndian(len))>> \o BigEndian(len)

\* RlpStream::append(&Vec<u8>): the bytes as one RLP string
RlpAppendBytes(bytes) ==
    IF Len(bytes) = 1 /\ bytes[1] < 128
        THEN bytes
        ELSE RlpHeader(Len(bytes), 128) \o bytes

\* RlpStream::append_empty_data
RlpEmptyData == <<128>>

\* RlpStream::begin_list(n) followed by the n items: the finished list
RlpList(payload) == RlpHeader(Len(payload), 192) \o payload

(***************************************************************************)
(* impl Encodable for Node, Node::hash_or_raw                              *)
(***************************************************************************)

RECURSIVE encode(_)

\* a hash_or_raw that still inlines an encoding of exactly 32 bytes
hash_or_raw_of_InlinesAt32(encoded) ==
    IF Len(encoded) <= 32 THEN encoded ELSE Keccak256(encoded)

\* Node::hash_or_raw on the encoding of a node
hash_or_raw_of(encoded) ==
    IF Len(encoded) < 32 THEN encoded ELSE Keccak256(encoded)

\* Node::hash_or_raw
hash_or_raw(node) == hash_or_raw_of(encode(node))

\* the list item a child contributes: s.append(&Node::hash_or_raw(child))
ChildItem(child) == RlpAppendBytes(hash_or_raw(child))

\* `for child in children.iter()`: the sixteen items in order
ChildItems(children) ==
    ChildItem(children[0]) \o ChildItem(children[1]) \o ChildItem(children[2])
        \o ChildItem(children[3]) \o ChildItem(children[4])
        \o ChildItem(children[5]) \o ChildItem(children[6])
        \o ChildItem(children[7]) \o ChildItem(children[8])
        \o ChildItem(children[9]) \o ChildItem(children[10])
        \o ChildItem(children[11]) \o ChildItem(children[12])
        \o ChildItem(children[13]) \o ChildItem(children[14])
        \o ChildItem(children[15])

\* a value item that leaves the value of the Branch out
BranchValueItem_AlwaysEmpty(value) == RlpEmptyData

\* the value item of a Branch
BranchValueItem(value) ==
    IF value.some THEN RlpAppendBytes(value.val) ELSE RlpEmptyData

\* rlp::encode(&node)
encode(node) ==
    CASE node.type = "Null" -> RlpEmptyData
      [] node.type = "Leaf" ->
            RlpList(RlpAppendBytes(encode_compact(node.key, TRUE))
                        \o RlpAppendBytes(node.value))
      [] node.type = "Extension" ->
            RlpList(RlpAppendBytes(encode_compact(node.prefix, FALSE))
                        \o ChildItem(node.next))
      [] node.type = "Branch" ->
            RlpList(ChildItems(node.children) \o BranchValueItem(node.value))

(***************************************************************************)
(* rlp::Rlp, as impl Decodable for Node uses it                            *)
(***************************************************************************)

RECURSIVE FromBigEndian(_)
FromBigEndian(bytes) ==
    IF bytes = <<>>
        THEN 0
        ELSE FromBigEndian(Take(bytes, Len(bytes) - 1)) * 256 + bytes[Len(bytes)]

\* a length that follows the first byte in len_of_len bytes; a length of
\* four bytes or more exceeds every buffer of the model
LongLength(bytes, len_of_len) ==
    IF len_of_len > 3 \/ Len(bytes) < 1 + len_of_len \/ bytes[2] = 0
        THEN -1
        ELSE FromBigEndian(SubSeq(bytes, 2, 1 + len_of_len))

\* the header of the item that starts a non-empty buffer: whether it is a
\* list, the header length and the payload length; ok is FALSE when the
\* header is malformed or the buffer is shorter than the item
PayloadInfo(bytes) ==
    LET l == bytes[1]
        info ==
            CASE l < 128 -> [list |-> FALSE, hlen |-> 0, plen |-> 1]
              [] l >= 128 /\ l <= 183 ->
                    [list |-> FALSE, hlen |-> 1, plen |-> l - 128]
              [] l >= 184 /\ l <= 191 ->
                    [list |-> FALSE, hlen |-> 1 + (l - 183),
                     plen |-> LongLength(bytes, l - 183)]
              [] l >= 192 /\ l <= 247 ->
                    [list |-> TRUE, hlen |-> 1, plen |-> l - 192]
              [] l >= 248 ->
                    [list |-> TRUE, hlen |-> 1 + (l - 247),
                     plen |-> LongLength(bytes, l - 247)]
    IN  [ok |-> info.plen >= 0 /\ Len(bytes) >= info.hlen + info.plen,
         list |-> info.list, hlen |-> info.hlen, plen |-> info.plen]

\* the items of a list payload, each with its header; ok is FALSE when an
\* item is malformed
RECURSIVE ListItems(_)
ListItems(payload) ==
    IF payload = <<>>
        THEN [ok |-> TRUE, items |-> <<>>]
        ELSE LET info == PayloadInfo(payload)
             IN  IF ~info.ok
                     THEN [ok |-> FALSE, items |-> <<>>]
                     ELSE LET size == info.hlen + info.plen
                              rest == ListItems(Drop(payload, size))
                          IN  [ok |-> rest.ok,
                               items |-> <<Take(payload, size)>> \o rest.items]

\* Rlp::val_at::<Vec<u8>> on one item: the payload of a string; a list, or
\* a one-byte string below 0x80 written with the 0x81 header, is an error
DecodeValue(item) ==
    LET info == PayloadInfo(item)
    IN  IF info.list \/ (item[1] = 129 /\ item[2] < 128)
            THEN [ok |-> FALSE, data |-> <<>>]
            ELSE [ok |-> TRUE,
                  data |-> SubSeq(item, info.hlen + 1, info.hlen + info.plen)]

(***************************************************************************)
(* impl Decodable for Node                                                 *)
(***************************************************************************)

DecodeErr == [ok |-> FALSE]

DecodeOk(n) == [ok |-> TRUE, node |-> n]

RECURSIVE decode(_)

\* a child reference decoded as embedded bytes whatever its length
DecodeReference_DecodesHash(data) == decode(data)

\* the node a child reference decodes to: Null for a 32-byte reference,
\* else the node decoded from the embedded bytes
DecodeReference(data) ==
    IF Len(data) = 32 THEN DecodeOk(Null) ELSE decode(data)

\* item_count == 2
DecodeTwoItems(items) ==
    LET path == DecodeValue(items[1])
        second == DecodeValue(items[2])
    IN  IF ~path.ok
            THEN DecodeErr
            ELSE IF path.data = <<>>
                THEN DecodeErr
                ELSE LET first_byte == At(path.data, 0)
                         prefix == first_byte \div 16
                         is_leaf == (prefix \div 2) % 2 /= 0
                     IN  IF ~second.ok
                             THEN DecodeErr
                             ELSE IF is_leaf
                                 THEN DecodeOk(Leaf(decode_compact(path.data),
                                                    second.data))
                                 ELSE LET next == DecodeReference(second.data)
                                      IN  IF ~next.ok
                                              THEN DecodeErr
                                              ELSE DecodeOk(Extension(
                                                       decode_compact(path.data),
                                                       next.node))

\* one pass of `for i in 0..16`
DecodeChild(item) ==
    LET child_data == DecodeValue(item)
    IN  IF ~child_data.ok
            THEN DecodeErr
            ELSE IF child_data.data = <<>>
                THEN DecodeOk(Null)
                ELSE DecodeReference(child_data.data)

\* item_count == 17
DecodeSeventeenItems(items) ==
    LET decoded == [i \in 0..15 |-> DecodeChild(items[i + 1])]
        value_data == DecodeValue(items[17])
    IN  IF (\E i \in 0..15 : ~decoded[i].ok) \/ ~value_data.ok
            THEN DecodeErr
            ELSE DecodeOk(Branch([i \in 0..15 |-> decoded[i].node],
                                 IF value_data.data = <<>>
                                     THEN None
                                     ELSE Some(value_data.data)))

\* rlp::decode::<Node>(bytes)
decode(bytes) ==
    IF bytes = <<>>
        THEN DecodeErr
        ELSE IF bytes[1] = 192 \/ bytes[1] = 128
            THEN DecodeOk(Null)
            ELSE IF bytes[1] < 192
                THEN DecodeErr
                ELSE LET info == PayloadInfo(bytes)
                         list == IF info.ok
                                     THEN ListItems(SubSeq(bytes, info.hlen + 1,
                                                           info.hlen + info.plen))
                                     ELSE [ok |-> FALSE, items |-> <<>>]
                     IN  IF ~list.ok
                             THEN DecodeErr
                             ELSE CASE Len(list.items) = 2 ->
                                          DecodeTwoItems(list.items)
                                    [] Len(list.items) = 17 ->
                                          DecodeSeventeenItems(list.items)
                                    [] OTHER -> DecodeErr

(***************************************************************************)
(* EthTrie::root_hash, get_proof, verify_proof                             *)
(***************************************************************************)

\* EthTrie::compute_hash
compute_hash(data) == Keccak256(data)

\* a root_hash that applies the inlining rule of child references
root_hash_of_Inlines(node) == hash_or_raw(node)

\* EthTrie::root_hash
root_hash_of(node) == Keccak256(encode(node))

RootHash == root_hash_of(root)

\* a get_proof_at that pushes the reference a parent holds for the node (its
\* hash when the encoding has 32 bytes or more) in place of the encoding
RECURSIVE get_proof_at_PushesReference(_, _)
get_proof_at_PushesReference(node, nibbles) ==
    <<hash_or_raw(node)>> \o
    CASE node.type = "Null" -> <<>>
      [] node.type = "Leaf" -> <<>>
      [] node.type = "Extension" ->
            IF Len(nibbles) >= Len(node.prefix)
                   /\ Take(nibbles, Len(node.prefix)) = node.prefix
                THEN get_proof_at_PushesReference(node.next,
                                                  Drop(nibbles, Len(node.prefix)))
                ELSE <<>>
      [] node.type = "Branch" ->
            IF nibbles /= <<>>
                THEN get_proof_at_PushesReference(node.children[At(nibbles, 0)],
                                                  Drop(nibbles, 1))
                ELSE <<>>

\* a get_proof_at that stops at a Branch that holds a value, nibbles left
\* or not
RECURSIVE get_proof_at_StopsAtValue(_, _)
get_proof_at_StopsAtValue(node, nibbles) ==
    <<encode(node)>> \o
    CASE node.type = "Null" -> <<>>
      [] node.type = "Leaf" -> <<>>
      [] node.type = "Extension" ->
            IF Len(nibbles) >= Len(node.prefix)
                   /\ Take(nibbles, Len(node.prefix)) = node.prefix
                THEN get_proof_at_StopsAtValue(node.next,
                                               Drop(nibbles, Len(node.prefix)))
                ELSE <<>>
      [] node.type = "Branch" ->
            IF nibbles /= <<>> /\ ~node.value.some
                THEN get_proof_at_StopsAtValue(node.children[At(nibbles, 0)],
                                               Drop(nibbles, 1))
                ELSE <<>>

\* EthTrie::get_proof_at: the items pushed, in order
RECURSIVE get_proof_at(_, _)
get_proof_at(node, nibbles) ==
    <<encode(node)>> \o
    CASE node.type = "Null" -> <<>>
      [] node.type = "Leaf" -> <<>>
      [] node.type = "Extension" ->
            IF Len(nibbles) >= Len(node.prefix)
                   /\ Take(nibbles, Len(node.prefix)) = node.prefix
                THEN get_proof_at(node.next, Drop(nibbles, Len(node.prefix)))
                ELSE <<>>
      [] node.type = "Branch" ->
            IF nibbles /= <<>>
                THEN get_proof_at(node.children[At(nibbles, 0)], Drop(nibbles, 1))
                ELSE <<>>

\* EthTrie::get_proof
get_proof(key) == get_proof_at(root, from_raw(key))

RECURSIVE verify_proof_recursive(_, _, _)

\* a Leaf arm that yields the value without comparing the key
verify_proof_Leaf_NoKeyCheck(key, value, nibbles) == Some(value)

\* Leaf arm
verify_proof_Leaf(key, value, nibbles) ==
    IF key = nibbles THEN Some(value) ELSE None

\* Extension arm
verify_proof_Extension(prefix, nibbles, proof, proof_index) ==
    IF Len(nibbles) < Len(prefix) \/ Take(nibbles, Len(prefix)) /= prefix
        THEN None
        ELSE IF proof_index + 1 >= Len(proof)
            THEN None
            ELSE verify_proof_recursive(Drop(nibbles, Len(prefix)), proof,
                                      proof_index + 1)

\* a Branch arm that yields the Branch's value when the items run out
verify_proof_Branch_ValueWhenOut(value, nibbles, proof, proof_index) ==
    IF nibbles = <<>>
        THEN value
        ELSE IF proof_index + 1 >= Len(proof)
            THEN value
            ELSE verify_proof_recursive(Drop(nibbles, 1), proof, proof_index + 1)

\* a Branch arm that checks the next item against the reference the
\* Branch holds for the nibble consumed
verify_proof_Branch_ChecksReference(value, nibbles, proof, proof_index) ==
    IF nibbles = <<>>
        THEN value
        ELSE IF proof_index + 1 >= Len(proof)
            THEN None
            ELSE LET item == At(proof, proof_index)
                     info == PayloadInfo(item)
                     list == ListItems(SubSeq(item, info.hlen + 1,
                                              info.hlen + info.plen))
                     reference == DecodeValue(list.items[At(nibbles, 0) + 1]).data
                 IN  IF reference /= hash_or_raw_of(At(proof, proof_index + 1))
                         THEN None
                         ELSE verify_proof_recursive(Drop(nibbles, 1), proof,
                                                   proof_index + 1)

\* Branch arm
verify_proof_Branch(value, nibbles, proof, proof_index) ==
    IF nibbles = <<>>
        THEN value
        ELSE IF proof_index + 1 >= Len(proof)
            THEN None
            ELSE verify_proof_recursive(Drop(nibbles, 1), proof, proof_index + 1)

\* EthTrie::verify_proof_recursive
verify_proof_recursive(nibbles, proof, proof_index) ==
    IF proof_index >= Len(proof)
        THEN None
        ELSE LET decoded == decode(At(proof, proof_index))
             IN  IF ~decoded.ok
                     THEN None
                     ELSE LET node == decoded.node
                          IN  CASE node.type = "Null" -> None
                                [] node.type = "Leaf" ->
                                      verify_proof_Leaf(node.key, node.value, nibbles)
                                [] node.type = "Extension" ->
                                      verify_proof_Extension(node.prefix, nibbles, proof,
                                                      proof_index)
                                [] node.type = "Branch" ->
                                      verify_proof_Branch(node.value, nibbles, proof,
                                                   proof_index)

\* a verify_proof that decodes every item of the proof before the walk and
\* yields None when one of them fails to decode
verify_proof_DecodesAllFirst(root_hash, key, proof) ==
    IF proof = <<>>
        THEN None
        ELSE IF compute_hash(At(proof, 0)) /= root_hash
            THEN None
            ELSE IF \E i \in 1..Len(proof) : ~decode(proof[i]).ok
                THEN None
                ELSE verify_proof_recursive(from_raw(key), proof, 0)

\* a verify_proof that does not compare the first item's hash
verify_proof_NoRootCheck(root_hash, key, proof) ==
    IF proof = <<>>
        THEN None
        ELSE verify_proof_recursive(from_raw(key), proof, 0)

\* EthTrie::verify_proof
verify_proof(root_hash, key, proof) ==
    IF proof = <<>>
        THEN None
        ELSE IF compute_hash(At(proof, 0)) /= root_hash
            THEN None
            ELSE verify_proof_recursive(from_raw(key), proof, 0)

(***************************************************************************)
(* The trie: EthTrie::new and EthTrie::insert                              *)
(***************************************************************************)

\* no call in progress, no result
Idle == [op |-> "none"]

\* EthTrie::new; kv is the key -> value map the inserts so far amount to,
\* inserts counts the insert calls
Init ==
    /\ root = Null
    /\ kv = [k \in Keys |-> None]
    /\ inserts = 0
    /\ call = Idle
    /\ ret = Idle

\* EthTrie::insert
insert(key, value) ==
    /\ inserts < MaxInserts
    /\ root' = insert_at(root, from_raw(key), value)
    /\ kv' = [kv EXCEPT ![key] = Some(value)]
    /\ inserts' = inserts + 1
    /\ UNCHANGED <<call, ret>>

Next == \E key \in Keys, value \in Values : insert(key, value)

Spec == Init /\ [][Next]_vars

(***************************************************************************)
(* The path codec on its own: encode_compact on any nibble path and flag,  *)
(* then Node::decode on a two-item node that carries the compact path      *)
(***************************************************************************)

\* the two-item node encoding that carries a compact path; the second item
\* is a 32-byte string, a value for a Leaf and a reference for an Extension
TwoItemNode(compact) ==
    RlpList(RlpAppendBytes(compact) \o RlpAppendBytes([i \in 1..32 |-> 0]))

CodecInit ==
    /\ root = Null
    /\ kv = [k \in Keys |-> None]
    /\ inserts = 0
    /\ call \in {[op |-> "encode_compact", nibbles |-> n, is_leaf |-> f] :
                     n \in Paths, f \in BOOLEAN}
    /\ ret = Idle

\* nibbles::encode_compact(nibbles, is_leaf)
EncodeCompact ==
    /\ ret = Idle
    /\ ret' = [op |-> "encode_compact",
               compact |-> encode_compact(call.nibbles, call.is_leaf)]
    /\ UNCHANGED <<root, kv, inserts, call>>

\* Node::decode on the node that carries the compact path, and
\* Node::decode_compact on the compact path
DecodeCompact ==
    /\ ret.op = "encode_compact"
    /\ ret' = [op |-> "decode",
               compact |-> ret.compact,
               path |-> decode_compact(ret.compact),
               decoded |-> decode(TwoItemNode(ret.compact))]
    /\ UNCHANGED <<root, kv, inserts, call>>

CodecNext == EncodeCompact \/ DecodeCompact

CodecSpec == CodecInit /\ [][CodecNext]_vars

(***************************************************************************)
(* verify_proof on its own: any root hash, key and list of proof items     *)
(***************************************************************************)

\* the longest proof given to verify_proof
MaxProofLen == 2

\* a Branch with a value and one Leaf child
SampleBranch ==
    Branch([NullChildren EXCEPT ![1] = Leaf(<<0>>, <<200>>)], Some(<<201>>))

\* proof items that are node encodings, byte by byte: Null; the Leaves
\* [0] -> 0xc8 and [1, 0] -> 0xc8; SampleBranch; an Extension with the
\* prefix [1] and a 32-byte reference
NullItem == <<128>>

LeafItem == <<195, 48, 129, 200>>

LongLeafItem == <<197, 130, 32, 16, 129, 200>>

BranchItem ==
    <<229, 129, 128, 132, 195, 48, 129, 200, 129, 128, 129, 128, 129, 128,
      129, 128, 129, 128, 129, 128, 129, 128, 129, 128, 129, 128, 129, 128,
      129, 128, 129, 128, 129, 128, 129, 128, 129, 201>>

ExtensionItem == <<226, 17, 160>> \o [i \in 1..32 |-> 0]

NodeItems == {NullItem, LeafItem, LongLeafItem, BranchItem, ExtensionItem}

\* proof items that are no node encoding: no bytes at all, a one-byte
\* string and a three-byte string (no list), a list cut short, lists of one
\* and of three items, a two-item list with an empty compact path
NotAList == {<<>>, <<5>>, <<131, 1, 2, 3>>}

BadList == {<<197, 1>>, <<193, 5>>, <<195, 1, 2, 3>>}

EmptyPath == {<<194, 128, 5>>}

MalformedItems == NotAList \cup BadList \cup EmptyPath

Proofs == UNION {[1..n -> NodeItems \cup MalformedItems] : n \in 0..MaxProofLen}

\* the root hash given with a proof: the digest of its first item, or
\* thirty-two zero bytes
RootHashesFor(proof) ==
    {[i \in 1..32 |-> 0]}
        \cup (IF proof = <<>> THEN {} ELSE {compute_hash(At(proof, 0))})

ProofInit ==
    /\ root = Null
    /\ kv = [k \in Keys |-> None]
    /\ inserts = 0
    /\ call \in UNION {{[op |-> "verify_proof", root_hash |-> h, key |-> k,
                           proof |-> p] :
                              h \in RootHashesFor(p), k \in {<<>>, <<16>>}} :
                         p \in Proofs}
    /\ ret = Idle

\* EthTrie::verify_proof(root_hash, key, proof)
VerifyProof ==
    /\ ret = Idle
    /\ ret' = [op |-> "verify_proof",
               value |-> verify_proof(call.root_hash, call.key, call.proof)]
    /\ UNCHANGED <<root, kv, inserts, call>>

ProofNext == VerifyProof

ProofSpec == ProofInit /\ [][ProofNext]_vars

(***************************************************************************)

(* Index and slice bounds: s[i] panics unless i < s.len(), and s[n..] and  *)
(* s[..n] panic unless n <= s.len().  For each walk over the trie, the     *)
(* operator below is TRUE when every index and slice on the path that the  *)
(* walk takes is in range.                                                 *)
(***************************************************************************)

\* s[i]
IndexInRange(s, i) == i >= 0 /\ i < Len(s)

\* s[n..] and s[..n]
SliceInRange(s, n) == n >= 0 /\ n <= Len(s)

\* children[idx] of [Box<Node>; 16]
ChildInRange(idx) == idx >= 0 /\ idx < 16

\* children[s[0] as usize] together with s[1..]
HeadAndTailInRange(s) ==
    /\ IndexInRange(s, 0)
    /\ ChildInRange(At(s, 0))
    /\ SliceInRange(s, 1)

\* common_prefix_len: a[i] and b[i] for i in 0..min_len
common_prefix_len_InBounds(a, b) ==
    \A i \in 0..(Min(Len(a), Len(b)) - 1) :
        IndexInRange(a, i) /\ IndexInRange(b, i)

RECURSIVE insert_at_InBounds(_, _)

\* insert_at, Leaf arm
insert_at_Leaf_InBounds(leaf_key, nibbles) ==
    LET common_len == common_prefix_len(leaf_key, nibbles)
    IN  /\ common_prefix_len_InBounds(leaf_key, nibbles)
        /\ IF common_len = Len(leaf_key) /\ common_len = Len(nibbles)
               THEN TRUE
               ELSE IF common_len = 0
                   THEN IF leaf_key = <<>>
                            THEN HeadAndTailInRange(nibbles)
                            ELSE /\ HeadAndTailInRange(leaf_key)
                                 /\ \/ nibbles = <<>>
                                    \/ /\ HeadAndTailInRange(nibbles)
                                       /\ insert_at_InBounds(
                                              [NullChildren EXCEPT
                                                  ![At(leaf_key, 0)] =
                                                      Leaf(Drop(leaf_key, 1), <<>>)]
                                                  [At(nibbles, 0)],
                                              Drop(nibbles, 1))
                   ELSE /\ SliceInRange(nibbles, common_len)
                        /\ SliceInRange(leaf_key, common_len)
                        /\ LET leaf_remainder == Drop(leaf_key, common_len)
                               nibbles_remainder == Drop(nibbles, common_len)
                           IN  IF leaf_remainder = <<>>
                                   THEN \/ nibbles_remainder = <<>>
                                        \/ HeadAndTailInRange(nibbles_remainder)
                                   ELSE /\ HeadAndTailInRange(leaf_remainder)
                                        /\ \/ nibbles_remainder = <<>>
                                           \/ HeadAndTailInRange(nibbles_remainder)

\* insert_at, Extension arm
insert_at_Extension_InBounds(prefix, next, nibbles) ==
    LET common_len == common_prefix_len(prefix, nibbles)
    IN  /\ common_prefix_len_InBounds(prefix, nibbles)
        /\ IF common_len = Len(prefix)
               THEN /\ SliceInRange(nibbles, common_len)
                    /\ insert_at_InBounds(next, Drop(nibbles, common_len))
               ELSE /\ SliceInRange(prefix, common_len)
                    /\ SliceInRange(nibbles, common_len)
                    /\ LET ext_remainder == Drop(prefix, common_len)
                           nibbles_remainder == Drop(nibbles, common_len)
                       IN  /\ HeadAndTailInRange(ext_remainder)
                           /\ \/ nibbles_remainder = <<>>
                              \/ HeadAndTailInRange(nibbles_remainder)

\* insert_at, Branch arm
insert_at_Branch_InBounds(children, nibbles) ==
    \/ nibbles = <<>>
    \/ /\ HeadAndTailInRange(nibbles)
       /\ insert_at_InBounds(children[At(nibbles, 0)], Drop(nibbles, 1))

\* insert_at
insert_at_InBounds(node, nibbles) ==
    CASE node.type = "Null" -> TRUE
      [] node.type = "Leaf" -> insert_at_Leaf_InBounds(node.key, nibbles)
      [] node.type = "Extension" ->
            insert_at_Extension_InBounds(node.prefix, node.next, nibbles)
      [] node.type = "Branch" -> insert_at_Branch_InBounds(node.children, nibbles)

\* get_at
RECURSIVE get_at_InBounds(_, _)
get_at_InBounds(node, nibbles) ==
    CASE node.type = "Extension" ->
            \/ Len(nibbles) < Len(node.prefix)
            \/ /\ SliceInRange(nibbles, Len(node.prefix))
               /\ \/ Take(nibbles, Len(node.prefix)) /= node.prefix
                  \/ get_at_InBounds(node.next, Drop(nibbles, Len(node.prefix)))
      [] node.type = "Branch" ->
            \/ nibbles = <<>>
            \/ /\ HeadAndTailInRange(nibbles)
               /\ get_at_InBounds(node.children[At(nibbles, 0)], Drop(nibbles, 1))
      [] OTHER -> TRUE

\* get_proof_at
RECURSIVE get_proof_at_InBounds(_, _)
get_proof_at_InBounds(node, nibbles) ==
    CASE node.type = "Extension" ->
            \/ ~(Len(nibbles) >= Len(node.prefix))
            \/ /\ SliceInRange(nibbles, Len(node.prefix))
               /\ \/ Take(nibbles, Len(node.prefix)) /= node.prefix
                  \/ get_proof_at_InBounds(node.next,
                                           Drop(nibbles, Len(node.prefix)))
      [] node.type = "Branch" ->
            \/ nibbles = <<>>
            \/ /\ HeadAndTailInRange(nibbles)
               /\ get_proof_at_InBounds(node.children[At(nibbles, 0)],
                                        Drop(nibbles, 1))
      [] OTHER -> TRUE

(***************************************************************************)

(* Observers used by the properties                                        *)
(***************************************************************************)

\* the keys the inserts so far have stored
Stored == {k \in Keys : kv[k].some}

\* a node and all nodes below it
RECURSIVE Nodes(_)
Nodes(node) ==
    {node} \cup
    CASE node.type = "Extension" -> Nodes(node.next)
      [] node.type = "Branch" -> UNION {Nodes(node.children[i]) : i \in 0..15}
      [] OTHER -> {}

\* the node at which the walk of get_at and get_proof_at stops
RECURSIVE WalkEnd(_, _)
WalkEnd(node, nibbles) ==
    CASE node.type = "Extension" ->
            IF Len(nibbles) >= Len(node.prefix)
                   /\ Take(nibbles, Len(node.prefix)) = node.prefix
                THEN WalkEnd(node.next, Drop(nibbles, Len(node.prefix)))
                ELSE node
      [] node.type = "Branch" ->
            IF nibbles /= <<>>
                THEN WalkEnd(node.children[At(nibbles, 0)], Drop(nibbles, 1))
                ELSE node
      [] OTHER -> node

EndType(key) == WalkEnd(root, from_raw(key)).type

\* the trie that inserting the entries of a map in the order of KeyList
\* into a new trie gives
RECURSIVE InsertFrom(_, _, _)
InsertFrom(node, map, i) ==
    IF i > Len(KeyList)
        THEN node
        ELSE InsertFrom(IF map[KeyList[i]].some
                            THEN insert_at(node, from_raw(KeyList[i]),
                                          map[KeyList[i]].val)
                            ELSE node,
                        map, i + 1)

TrieOfMap(map) == InsertFrom(Null, map, 1)

\* the nodes that get_at visits, in order, each with the nibbles left there
RECURSIVE get_at_Visits(_, _)
get_at_Visits(node, nibbles) ==
    <<[node |-> node, nibbles |-> nibbles]>> \o
    CASE node.type = "Extension" ->
            IF Len(nibbles) < Len(node.prefix)
                THEN <<>>
                ELSE IF Take(nibbles, Len(node.prefix)) = node.prefix
                    THEN get_at_Visits(node.next, Drop(nibbles, Len(node.prefix)))
                    ELSE <<>>
      [] node.type = "Branch" ->
            IF nibbles = <<>>
                THEN <<>>
                ELSE get_at_Visits(node.children[At(nibbles, 0)], Drop(nibbles, 1))
      [] OTHER -> <<>>

\* the walk goes on below a node: an Extension whose prefix the nibbles
\* start with, or a Branch with nibbles left
GoesOn(visit) ==
    \/ /\ visit.node.type = "Extension"
       /\ Len(visit.nibbles) >= Len(visit.node.prefix)
       /\ Take(visit.nibbles, Len(visit.node.prefix)) = visit.node.prefix
    \/ /\ visit.node.type = "Branch"
       /\ visit.nibbles /= <<>>

\* the occupancies of a Branch
Occupancy(branch) ==
    Cardinality({i \in 0..15 : branch.children[i].type /= "Null"})
        + (IF branch.value.some THEN 1 ELSE 0)

\* the proof of a key, checked against the trie's own root hash
VerifyOwnProof(key) == verify_proof(RootHash, key, get_proof(key))

(***************************************************************************)
(* Properties                                                              *)
(***************************************************************************)

\* C1: after any sequence of inserts on a new trie, get(k) returns the
\* value of the most recent insert for every inserted key k, and None for
\* every key never inserted (proper prefixes and extensions of inserted
\* keys included).
C1_GetReturnsLastInserted == \A k \in Keys : get(k) = kv[k]

\* three inserts, one of them an overwrite, with a stored key, a stored
\* extension of it and an absent key between them
C1_Witness ==
    /\ inserts = 3
    /\ Stored = {<<16>>, <<16, 16>>}
    /\ get(<<16>>) = Some(LongValue)
    /\ get(<<16, 16>>) = Some(<<200>>)
    /\ get(<<>>) = None
    /\ get(<<16, 17>>) = None

\* C2: the node tree, and so root_hash(), depends only on the current
\* key -> value map: whatever the order of the inserts and whatever values
\* were overwritten on the way, the tree is the one that inserting the
\* map's entries in one fixed order gives.
C2_TreeDependsOnMapOnly ==
    /\ root = TrieOfMap(kv)
    /\ RootHash = root_hash_of(TrieOfMap(kv))

\* three stored keys under an Extension that an insert has split: the trie
\* is the one the inserts give in the order of KeyList and also the one
\* they give in the opposite order
C2_Witness ==
    /\ Stored = {<<16, 16>>, <<16, 17>>, <<32, 16>>}
    /\ root.type = "Branch"
    /\ root.children[1].type = "Extension"
    /\ root = TrieOfMap(kv)
    /\ root = insert_at(
                  insert_at(
                      insert_at(Null, from_raw(<<32, 16>>), kv[<<32, 16>>].val),
                      from_raw(<<16, 17>>), kv[<<16, 17>>].val),
                  from_raw(<<16, 16>>), kv[<<16, 16>>].val)

\* C3 as stated: for every stored key k with current value v,
\* verify_proof(root_hash(), k, get_proof(k)) returns Some(v).
C3_Original ==
    \A k \in Keys : kv[k].some => VerifyOwnProof(k) = Some(kv[k].val)

\* C3 as amended: for every stored key k with current value v,
\* verify_proof(root_hash(), k, get_proof(k)) returns Some(v), except that
\* it returns None when v is empty and the walk for k ends at a Branch.
C3_ProofRoundTrip ==
    \A k \in Keys :
        kv[k].some =>
            VerifyOwnProof(k) =
                IF kv[k].val = <<>> /\ EndType(k) = "Branch"
                    THEN None
                    ELSE Some(kv[k].val)

\* a proof of three items (Extension, Branch, Leaf) that verifies to a
\* long value, next to a key stored with the empty value at a Branch and
\* one stored with the empty value at a Leaf
C3_Witness ==
    /\ kv[<<16, 16>>] = Some(LongValue)
    /\ Len(get_proof(<<16, 16>>)) = 3
    /\ VerifyOwnProof(<<16, 16>>) = Some(LongValue)
    /\ kv[<<16>>] = Some(<<>>)
    /\ EndType(<<16>>) = "Branch"
    /\ VerifyOwnProof(<<16>>) = None
    /\ kv[<<16, 1>>] = Some(<<>>)
    /\ VerifyOwnProof(<<16, 1>>) = Some(<<>>)

\* C4: for every key k that is not stored (the empty trie included),
\* get_proof(k) is non-empty and verify_proof(root_hash(), k, get_proof(k))
\* returns None.
C4_AbsentKeyProof ==
    \A k \in Keys :
        ~kv[k].some => get_proof(k) /= <<>> /\ VerifyOwnProof(k) = None

\* absent keys whose walks end at a Null child, a mismatching Leaf, a
\* mismatching Extension and a Branch without a value, all in one trie
C4_Witness ==
    /\ \E k \in Keys \ Stored : EndType(k) = "Null" /\ Len(get_proof(k)) > 1
    /\ \E k \in Keys \ Stored : EndType(k) = "Leaf"
    /\ \E k \in Keys \ Stored : EndType(k) = "Extension"
    /\ \E k \in Keys \ Stored : EndType(k) = "Branch"

\* C5: verify_proof, given the proof get_proof(k) of a stored key k and a
\* different key k2 that is not stored, returns None.
C5_InvalidKeyYieldsNone ==
    \A k \in Stored : \A k2 \in Keys \ Stored :
        verify_proof(RootHash, k2, get_proof(k)) = None

\* the all-zero hash of test_verify_proof_wrong_root_hash
ZeroHash == [i \in 1..32 |-> 0]

\* the root hashes handed to verify_proof: the trie's own, the all-zero
\* hash and the hash of the empty trie
HashInputs == {RootHash, ZeroHash, root_hash_of(Null)}

\* the proof lists handed to verify_proof: every proof get_proof gives for
\* a key of Keys, and every such proof without its first item, which then
\* starts at a node below the root
ProofInputs ==
    UNION {LET proof == get_proof(k) IN {proof, Tail(proof)} : k \in Keys}
        \ {<<>>}

\* C6: if the root_hash argument differs from Keccak-256 of the first
\* proof item, verify_proof returns None, for every key; in particular for
\* a proof from get_proof and any hash other than root_hash().
C6_WrongRootHashYieldsNone ==
    LET hashes == HashInputs
    IN  \A proof \in ProofInputs :
            LET first == compute_hash(At(proof, 0))
            IN  \A h \in hashes \ {first} : \A k \in Keys :
                    verify_proof(h, k, proof) = None

\* a proof that verifies against root_hash() and not against two other
\* hashes, and whose tail does not verify against root_hash()
C6_Witness ==
    /\ inserts = 2
    /\ Cardinality(HashInputs) = 3
    /\ \E k \in Stored :
          /\ VerifyOwnProof(k) = Some(<<200>>)
          /\ Len(get_proof(k)) > 1
          /\ \A h \in HashInputs \ {RootHash} :
                verify_proof(h, k, get_proof(k)) = None
          /\ compute_hash(At(Tail(get_proof(k)), 0)) /= RootHash
          /\ verify_proof(RootHash, k, Tail(get_proof(k))) = None

\* the value of the forged Leaf
ForgedValue == <<153>>

\* the nibbles left after the walk passed the root, for a key whose walk
\* does pass the root (a Branch with nibbles left, an Extension whose
\* prefix matches)
PassesRoot(nibbles) ==
    \/ root.type = "Branch" /\ nibbles /= <<>>
    \/ /\ root.type = "Extension"
       /\ Len(nibbles) >= Len(root.prefix)
       /\ Take(nibbles, Len(root.prefix)) = root.prefix

AfterRoot(nibbles) ==
    IF root.type = "Branch" THEN Drop(nibbles, 1)
                            ELSE Drop(nibbles, Len(root.prefix))

\* C7: verify_proof does not check a non-root item against the reference
\* held in the previous item: for the proof made of the genuine root
\* encoding followed by the encoding of a Leaf that is no node of the trie,
\* it returns the forged Leaf's value whenever the nibbles left after the
\* root equal the forged Leaf's path.
C7_ForgedLeafAccepted ==
    LET root_hash == RootHash
        genuine == encode(root)
    IN  \A k \in Keys :
            PassesRoot(from_raw(k)) =>
                LET forged == Leaf(AfterRoot(from_raw(k)), ForgedValue)
                IN  /\ forged \notin Nodes(root)
                    /\ verify_proof(root_hash, k, <<genuine, encode(forged)>>)
                           = Some(ForgedValue)

\* the forged value is returned for a key that is not stored and for a
\* key stored with another value
C7_Witness ==
    /\ root.type = "Branch"
    /\ kv[<<16, 16>>] = None
    /\ kv[<<32, 16>>] = Some(LongValue)
    /\ verify_proof(RootHash, <<16, 16>>,
                   <<encode(root), encode(Leaf(<<0, 1, 0>>, ForgedValue))>>)
           = Some(ForgedValue)
    /\ verify_proof(RootHash, <<32, 16>>,
                   <<encode(root), encode(Leaf(<<0, 1, 0>>, ForgedValue))>>)
           = Some(ForgedValue)

\* C8: in every reachable trie every Extension has a non-empty prefix and
\* a Branch as its child.
C8_ExtensionShape ==
    \A n \in Nodes(root) :
        n.type = "Extension" => n.prefix /= <<>> /\ n.next.type = "Branch"

\* a split Extension: one whose remainder of one nibble was dropped (the
\* Branch re-linked directly) and one whose remainder was kept
C8_Witness ==
    /\ root.type = "Branch"
    /\ root.children[1].type = "Extension"
    /\ root.children[1].prefix = <<0, 1>>
    /\ root.children[1].next.type = "Branch"

\* C9: in every reachable trie every Branch has at least two occupancies
\* (non-Null child slots, plus one for a present value).
C9_BranchOccupancy ==
    \A n \in Nodes(root) : n.type = "Branch" => Occupancy(n) >= 2

\* Branches of exactly two occupancies: one child and a value, and two
\* children without a value
C9_Witness ==
    /\ root.type = "Branch"
    /\ root.value.some
    /\ Occupancy(root) = 2
    /\ \E n \in Nodes(root) :
          n.type = "Branch" /\ ~n.value.some /\ Occupancy(n) = 2

\* C10: the root is Null if and only if no insert has been performed.
C10_RootNullIffNoInsert == (root = Null) <=> (inserts = 0)

\* the empty key with the empty value, inserted into a new trie
C10_Witness ==
    /\ inserts = 1
    /\ kv[<<>>] = Some(<<>>)
    /\ root = Leaf(<<>>, <<>>)

\* C11: root_hash() is the Keccak-256 digest of the full encoding of the
\* root, 32 bytes long also when that encoding is shorter than 32 bytes
\* (where the inlining rule would give the encoding itself); for a new trie
\* the encoding is the byte 0x80 and the digest is 56e81f17...e363b421
EmptyTrieRoot ==
    <<86, 232, 31, 23, 27, 204, 85, 166, 255, 131, 69, 230, 146, 192, 248, 110,
      91, 72, 224, 27, 153, 108, 173, 192, 1, 98, 47, 181, 227, 99, 180, 33>>

C11_RootAlwaysHashed ==
    /\ RootHash = compute_hash(encode(root))
    /\ Len(RootHash) = 32
    /\ Len(encode(root)) < 32 => RootHash /= hash_or_raw(root)
    /\ inserts = 0 => encode(root) = <<128>> /\ RootHash = EmptyTrieRoot

\* a root Leaf whose encoding is shorter than 32 bytes
C11_Witness ==
    /\ root.type = "Leaf"
    /\ Len(encode(root)) < 32
    /\ hash_or_raw(root) = encode(root)

\* the root that insert(key, value) gives in the current state
AfterInsert(key, value) == insert_at(root, from_raw(key), value)

\* C12 as stated: an insert(k, v) that changes the key -> value map (k
\* absent, or mapped to another value) changes the encoding of the root,
\* and so root_hash()
C12_Original ==
    \A k \in Keys, v \in Values :
        kv[k] /= Some(v) => encode(AfterInsert(k, v)) /= encode(root)

\* C12, amended: an insert(k, v) that changes the key -> value map changes
\* the encoding of the root, and so root_hash(), except that both stay as
\* they were when k was absent, v is empty and the walk for k ends at a
\* Branch with no nibbles left
C12_RootCommitsToMap ==
    LET before == encode(root)
        hash_before == RootHash
    IN  \A k \in Keys, v \in Values :
            kv[k] /= Some(v) =>
                LET unseen == ~kv[k].some /\ v = <<>> /\ EndType(k) = "Branch"
                    after == AfterInsert(k, v)
                IN  /\ unseen <=> encode(after) = before
                    /\ unseen <=> root_hash_of(after) = hash_before

\* a root Branch with two children and no value: inserting the empty key
\* with a value changes the root encoding, with the empty value it does not
C12_Witness ==
    /\ Stored = {<<16>>, <<32, 16>>}
    /\ root.type = "Branch"
    /\ encode(AfterInsert(<<>>, <<200>>)) /= encode(root)
    /\ encode(AfterInsert(<<>>, <<>>)) = encode(root)
    /\ encode(AfterInsert(<<16>>, LongValue)) /= encode(root)

\* the list items, each with its header, of the encoding of an Extension
\* or a Branch
ItemsOf(node) ==
    LET encoded == encode(node)
        info == PayloadInfo(encoded)
    IN  ListItems(SubSeq(encoded, info.hlen + 1, info.hlen + info.plen)).items

\* C13: in the encoding of a Branch or Extension, the list item of a child
\* whose own encoding is shorter than 32 bytes is that encoding, byte for
\* byte; the item of a Null child of a Branch is the single byte 0x80
C13_InlineVerbatim ==
    \A n \in Nodes(root) :
        /\ n.type = "Branch" =>
               \A i \in 0..15 :
                   /\ Len(encode(n.children[i])) < 32 =>
                          ItemsOf(n)[i + 1] = encode(n.children[i])
                   /\ n.children[i] = Null => ItemsOf(n)[i + 1] = <<128>>
        /\ n.type = "Extension" =>
               (Len(encode(n.next)) < 32 => ItemsOf(n)[2] = encode(n.next))

\* the path of a decoded two-item node
PathOf(node) == IF node.type = "Leaf" THEN node.key ELSE node.prefix

\* C14: decoding the compact encoding of (n, f) gives back n as the path
\* and f as the leaf flag, for every nibble sequence n and flag f
C14_CompactRoundTrip ==
    ret.op = "decode" =>
        /\ ret.path = call.nibbles
        /\ ret.decoded.ok
        /\ ret.decoded.node.type \in {"Leaf", "Extension"}
        /\ (ret.decoded.node.type = "Leaf") <=> call.is_leaf
        /\ PathOf(ret.decoded.node) = call.nibbles

\* the extension path [10, 11, 12], of odd length, encoded and decoded
C14_Witness ==
    /\ ret.op = "decode"
    /\ call.nibbles = <<10, 11, 12>>
    /\ ~call.is_leaf
    /\ ret.decoded.node.type = "Extension"
    /\ ret.path = <<10, 11, 12>>

\* C15: encode_compact(n, is_leaf) has floor(len(n)/2)+1 bytes; the high
\* nibble of the first byte is 0 (extension, even), 1 (extension, odd),
\* 2 (leaf, even) or 3 (leaf, odd); its low nibble is 0 for even length and
\* n[0] for odd length; the nibbles that remain follow in pairs, the first
\* of a pair in the high half of the byte
C15_CompactFormat ==
    ret.op \in {"encode_compact", "decode"} =>
        LET n == call.nibbles
            c == ret.compact
            odd == IF Len(n) % 2 = 1 THEN 1 ELSE 0
        IN  /\ Len(c) = (Len(n) \div 2) + 1
            /\ c[1] \div 16 = (IF call.is_leaf THEN 2 ELSE 0) + odd
            /\ c[1] % 16 = (IF odd = 1 THEN n[1] ELSE 0)
            /\ \A j \in 1..(Len(n) \div 2) :
                   c[j + 1] = n[2 * j - 1 + odd] * 16 + n[2 * j + odd]
            /\ n = <<>> /\ call.is_leaf => c = <<32>>
            /\ n = <<10, 11, 12>> /\ call.is_leaf => c = <<58, 188>>
            /\ n = <<10, 11>> /\ ~call.is_leaf => c = <<0, 171>>

\* the leaf path [10, 11, 12] encoded as 0x3A 0xBC
C15_Witness ==
    /\ ret.op = "encode_compact"
    /\ call.nibbles = <<10, 11, 12>>
    /\ call.is_leaf
    /\ ret.compact = <<58, 188>>

\* C16: insert and get (and get_proof) never index out of range, for any
\* key, the empty key included, and any value, in any reachable trie: every
\* index into the nibble sequence or a node path inside insert_at, get_at
\* and get_proof_at is within bounds
C16_NoOutOfRange ==
    \A k \in Keys :
        /\ insert_at_InBounds(root, from_raw(k))
        /\ get_at_InBounds(root, from_raw(k))
        /\ get_proof_at_InBounds(root, from_raw(k))
        /\ \A v \in Values : AfterInsert(k, v).type \in {"Leaf", "Extension", "Branch"}
        /\ get(k) \in {None} \cup {Some(v) : v \in Values}

\* the empty key stored beside another key: the inserts went through the
\* nibbles[0] and nibbles[1..] of the Leaf arm with one key empty
C16_Witness ==
    /\ inserts = 2
    /\ Stored = {<<>>, <<16, 16>>}
    /\ get(<<>>).some
    /\ insert_at_InBounds(root, <<>>)
    /\ insert_at_InBounds(root, from_raw(<<16, 17>>))

\* C17 as stated: in every trie in which the empty key has been inserted,
\* the root is a Branch whose value slot holds the empty key's current value
C17_Original ==
    kv[<<>>].some => root.type = "Branch" /\ root.value = kv[<<>>]

\* C17, amended: in every trie in which the empty key has been inserted, the
\* root is a Leaf with the empty path that holds the empty key's current
\* value when no other key is stored, and else a Branch whose value slot
\* holds the empty key's current value
C17_EmptyKeyAtRoot ==
    kv[<<>>].some =>
        IF Stored = {<<>>}
            THEN root = Leaf(<<>>, kv[<<>>].val)
            ELSE root.type = "Branch" /\ root.value = kv[<<>>]

\* the empty key inserted after two keys that share a root Extension
C17_Witness ==
    /\ Stored = {<<>>, <<16, 16>>, <<16, 17>>}
    /\ root.type = "Branch"
    /\ root.value = Some(LongValue)
    /\ root.children[1].type = "Extension"
    /\ get(<<>>) = Some(LongValue)

\* C18: a key inserted with an empty value whose path ends at a Branch
\* reads as absent: get(k) returns None for it, as for a key never inserted
C18_EmptyAtBranchReadsAbsent ==
    \A k \in Stored :
        kv[k].val = <<>> /\ EndType(k) = "Branch" => get(k) = None

\* the proof index and the nibbles left at the last item that
\* verify_proof_recursive looks at, for a non-empty proof
RECURSIVE StopsAt(_, _, _)
StopsAt(nibbles, proof, proof_index) ==
    LET decoded == decode(At(proof, proof_index))
        here == [index |-> proof_index, nibbles |-> nibbles]
    IN  IF ~decoded.ok \/ proof_index + 1 >= Len(proof)
            THEN here
            ELSE CASE decoded.node.type = "Extension" ->
                          IF Len(nibbles) >= Len(decoded.node.prefix)
                                 /\ Take(nibbles, Len(decoded.node.prefix))
                                        = decoded.node.prefix
                              THEN StopsAt(Drop(nibbles, Len(decoded.node.prefix)),
                                           proof, proof_index + 1)
                              ELSE here
                   [] decoded.node.type = "Branch" ->
                          IF nibbles /= <<>>
                              THEN StopsAt(Drop(nibbles, 1), proof, proof_index + 1)
                              ELSE here
                   [] OTHER -> here

\* C19: verify_proof yields a value or None on every input and None for an
\* empty proof, for a wrong root hash, when the item it looks at fails to
\* decode (no list, a list of other than 2 or 17 items, a two-item list
\* with an empty compact path), and when the items run out: the last item
\* looked at is an Extension, or a Branch with nibbles left
C19_FailuresYieldNone ==
    ret.op = "verify_proof" =>
        /\ ret.value = None \/ (ret.value.some /\ ret.value = Some(ret.value.val))
        /\ \A i \in 1..Len(call.proof) :
               call.proof[i] \in MalformedItems <=> ~decode(call.proof[i]).ok
        /\ NullItem = encode(Null)
        /\ LeafItem = encode(Leaf(<<0>>, <<200>>))
        /\ LongLeafItem = encode(Leaf(<<1, 0>>, <<200>>))
        /\ BranchItem = encode(SampleBranch)
        /\ decode(ExtensionItem) = DecodeOk(Extension(<<1>>, Null))
        /\ call.proof = <<>> => ret.value = None
        /\ call.proof /= <<>> =>
               LET stop == StopsAt(from_raw(call.key), call.proof, 0)
                   decoded == decode(At(call.proof, stop.index))
               IN  \/ ret.value = None
                   \/ /\ call.root_hash = compute_hash(At(call.proof, 0))
                      /\ decoded.ok
                      /\ decoded.node.type /= "Null"
                      /\ decoded.node.type /= "Extension"
                      /\ decoded.node.type = "Branch" => stop.nibbles = <<>>

\* the walk passes a Branch and stops at a two-item list with an empty
\* compact path: None
C19_Witness ==
    /\ ret.op = "verify_proof"
    /\ call.proof = <<BranchItem, <<194, 128, 5>> >>
    /\ call.key = <<16>>
    /\ call.root_hash = compute_hash(BranchItem)
    /\ StopsAt(from_raw(call.key), call.proof, 0).index = 1
    /\ ret.value = None

\* C20: get_proof(k) lists, from the root down, the full encoding of each
\* node that get(k) visits and nothing else: never the 32-byte hash that a
\* parent holds for it; the first item is the encoding of the root, whose
\* digest is root_hash(); the walk stops at the first Null, Leaf,
\* mismatching Extension, or Branch reached with no nibbles left
C20_ProofListsVisitedNodes ==
    LET root_hash == RootHash
    IN  \A k \in Keys :
            LET visits == get_at_Visits(root, from_raw(k))
                proof == get_proof(k)
            IN  /\ Len(proof) = Len(visits)
                /\ \A i \in 1..Len(visits) :
                       /\ proof[i] = encode(visits[i].node)
                       /\ Len(proof[i]) >= 32 =>
                              proof[i] /= hash_or_raw(visits[i].node)
                       /\ GoesOn(visits[i]) <=> i < Len(visits)
                /\ visits[1].node = root
                /\ compute_hash(proof[1]) = root_hash

\* a proof of two items, the root Branch and a Leaf whose encoding has 32
\* bytes, so that the Branch holds its hash
C20_Witness ==
    /\ kv[<<32, 16>>] = Some(LongValue)
    /\ root.type = "Branch"
    /\ Len(get_proof(<<32, 16>>)) = 2
    /\ Len(get_proof(<<32, 16>>)[2]) >= 32
    /\ get_proof(<<32, 16>>)[2] /= hash_or_raw(root.children[2])
    /\ Len(get_proof(<<16, 17>>)) = 2

\* a is a proper prefix of b, as sequences
ProperPrefix(a, b) == Len(a) < Len(b) /\ Take(b, Len(a)) = a

\* C21: if k1 and k2 are both stored and k1 is a proper prefix of k2, then
\* get_proof(k1) is a proper prefix of get_proof(k2) as a list of items,
\* and so get_proof(k2) has at least as many items as get_proof(k1).
C21_ProofOfPrefixIsPrefix ==
    \A k1 \in Stored, k2 \in Stored :
        ProperPrefix(k1, k2) =>
            LET proof1 == get_proof(k1)
                proof2 == get_proof(k2)
            IN  /\ ProperPrefix(proof1, proof2)
                /\ Len(proof2) >= Len(proof1)
                /\ EndType(k1) = "Branch"

\* the empty key, 10 and 1010 stored: the proofs have one item (the root
\* Branch), three (Branch, Extension, Branch) and four (those and a Leaf)
C21_Witness ==
    /\ Stored = {<<>>, <<16>>, <<16, 16>>}
    /\ root.type = "Branch"
    /\ Len(get_proof(<<>>)) = 1
    /\ Len(get_proof(<<16>>)) = 3
    /\ Len(get_proof(<<16, 16>>)) = 4
    /\ ProperPrefix(get_proof(<<>>), get_proof(<<16>>))
    /\ ProperPrefix(get_proof(<<16>>), get_proof(<<16, 16>>))

(***************************************************************************)
(* Node::hash_or_raw as a function of the node                             *)
(***************************************************************************)

\* the nibble paths of the sample nodes: those of Paths made of the
\* nibbles 0 and f
SamplePaths == {p \in Paths : \A i \in 1..Len(p) : p[i] \in {0, 15}}

\* the values of the sample nodes: every length up to a few bytes past the
\* long value, so that Leaf encodings of 29 to 34 bytes occur
SampleValues == {[i \in 1..n |-> 170] : n \in 0..(LongValueLen + 3)}

SampleLeaves == {Leaf(p, v) : p \in SamplePaths, v \in SampleValues}

\* the nodes handed to hash_or_raw: Null, the sample Leaves, a Branch with
\* each of them as its child 0, and an Extension over that Branch
SampleNodes ==
    {Null} \cup SampleLeaves
        \cup {Branch([NullChildren EXCEPT ![0] = l], None) : l \in SampleLeaves}
        \cup {Extension(<<1>>, Branch([NullChildren EXCEPT ![0] = l], None)) :
                  l \in SampleLeaves}

RefInit ==
    /\ root = Null
    /\ kv = [k \in Keys |-> None]
    /\ inserts = 0
    /\ call \in {[op |-> "hash_or_raw", node |-> n] : n \in SampleNodes}
    /\ ret = Idle

\* Node::hash_or_raw(node), with the encoding it computes on the way
HashOrRaw ==
    /\ call.op = "hash_or_raw"
    /\ ret = Idle
    /\ ret' = [op |-> "hash_or_raw",
               encoded |-> encode(call.node),
               reference |-> hash_or_raw(call.node)]
    /\ UNCHANGED <<root, kv, inserts, call>>

RefNext == HashOrRaw

RefSpec == RefInit /\ [][RefNext]_vars

\* C22: the reference computed for a node is its own encoding when that
\* encoding is at most 31 bytes long and the 32-byte Keccak-256 digest of
\* the encoding when it is 32 bytes or longer; so a reference is 32 bytes
\* long if and only if it is a digest.
C22_ReferenceIsRawOrHash ==
    ret.op = "hash_or_raw" =>
        /\ Len(ret.encoded) <= 31 => ret.reference = ret.encoded
        /\ Len(ret.encoded) >= 32 =>
               /\ ret.reference = compute_hash(ret.encoded)
               /\ Len(ret.reference) = 32
        /\ Len(ret.reference) = 32 <=> ret.reference = compute_hash(ret.encoded)
        /\ Len(ret.reference) = 32 <=> ret.reference /= ret.encoded
        /\ Len(NullDigest) = 32

\* a Leaf whose encoding has exactly 32 bytes: the reference is the digest
C22_Witness ==
    /\ ret.op = "hash_or_raw"
    /\ call.node = Leaf(<<0, 15>>, LongValue)
    /\ Len(ret.encoded) = 32
    /\ ret.reference = compute_hash(ret.encoded)
    /\ ret.reference /= ret.encoded

\* a Leaf whose encoding has exactly 31 bytes: the reference is the encoding
C22_Witness_Inlined ==
    /\ ret.op = "hash_or_raw"
    /\ call.node.type = "Leaf"
    /\ Len(ret.encoded) = 31
    /\ ret.reference = ret.encoded

\* every stored value is non-empty
NonEmptyValues == \A k \in Stored : kv[k].val /= <<>>

\* the child the decoder gives back for a child of an encoded node: the
\* child itself when the parent embeds its encoding, Null when the parent
\* holds its 32-byte hash
DecodedChild(child) == IF Len(hash_or_raw(child)) = 32 THEN Null ELSE child

\* the node that decoding the encoding of a node gives back
Decoded(node) ==
    CASE node.type = "Extension" ->
            Extension(node.prefix, DecodedChild(node.next))
      [] node.type = "Branch" ->
            Branch([i \in 0..15 |-> DecodedChild(node.children[i])], node.value)
      [] OTHER -> node

\* C23: on every node of a reachable trie with non-empty values, decoding
\* the node's encoding gives a node of the same variant with the same path
\* and the same value, in which every child embedded inline is that child
\* and every child replaced by a 32-byte hash is Null.
C23_DecodeInvertsEncode ==
    NonEmptyValues =>
        \A n \in Nodes(root) :
            LET decoded == decode(encode(n))
            IN  /\ decoded.ok
                /\ decoded.node.type = n.type
                /\ n.type = "Leaf" =>
                       decoded.node.key = n.key /\ decoded.node.value = n.value
                /\ n.type = "Extension" =>
                       /\ decoded.node.prefix = n.prefix
                       /\ decoded.node.next = DecodedChild(n.next)
                /\ n.type = "Branch" =>
                       /\ decoded.node.value = n.value
                       /\ \A i \in 0..15 :
                              decoded.node.children[i] = DecodedChild(n.children[i])
                /\ decoded.node = Decoded(n)

\* a root Branch with a value, an inlined Leaf child and a hashed Leaf
\* child, and a trie whose root is an Extension over a hashed Branch
C23_Witness ==
    /\ NonEmptyValues
    /\ Stored = {<<>>, <<16>>, <<32, 16>>}
    /\ kv[<<32, 16>>].val = LongValue
    /\ root.type = "Branch"
    /\ root.value = Some(kv[<<>>].val)
    /\ root.children[1].type = "Leaf"
    /\ Len(hash_or_raw(root.children[1])) < 32
    /\ Len(hash_or_raw(root.children[2])) = 32
    /\ decode(encode(root)).node.children[1] = root.children[1]
    /\ decode(encode(root)).node.children[2] = Null
    /\ decode(encode(root)).node.value = root.value

\* what insert_at leaves alone, followed down the path of the nibbles from
\* the node before to the node after.  At a Branch: every child but the
\* one at the next nibble, and the value unless no nibbles are left.  At
\* an Extension whose prefix the nibbles start with: the prefix.  At an
\* Extension that is split: the child subtree, linked below the new Branch
\* at the nibble where the prefix parted, under what is left of the prefix.
\* A Null or a Leaf is itself the end of the path.
RECURSIVE insert_at_Frame(_, _, _)
insert_at_Frame(before, after, nibbles) ==
    CASE before.type = "Branch" ->
            /\ after.type = "Branch"
            /\ IF nibbles = <<>>
                   THEN after.children = before.children
                   ELSE /\ \A i \in (0..15) \ {At(nibbles, 0)} :
                               after.children[i] = before.children[i]
                        /\ after.value = before.value
                        /\ insert_at_Frame(before.children[At(nibbles, 0)],
                                           after.children[At(nibbles, 0)],
                                           Drop(nibbles, 1))
      [] before.type = "Extension" ->
            LET common_len == common_prefix_len(before.prefix, nibbles)
                ext_remainder == Drop(before.prefix, common_len)
                branch == IF common_len > 0 THEN after.next ELSE after
            IN  IF common_len = Len(before.prefix)
                    THEN /\ after.type = "Extension"
                         /\ after.prefix = before.prefix
                         /\ insert_at_Frame(before.next, after.next,
                                            Drop(nibbles, common_len))
                    ELSE /\ common_len > 0 =>
                                /\ after.type = "Extension"
                                /\ after.prefix = Take(before.prefix, common_len)
                         /\ branch.type = "Branch"
                         /\ branch.children[At(ext_remainder, 0)] =
                                IF Len(ext_remainder) = 1
                                    THEN before.next
                                    ELSE Extension(Drop(ext_remainder, 1),
                                                   before.next)
                         /\ before.next \in Nodes(after)
      [] OTHER -> TRUE

\* C24: insert(k, v) changes only the nodes on the path of k: at every
\* Branch it passes through, every child slot other than the one at the
\* next nibble of k is unchanged, and the value is unchanged unless k ends
\* at that Branch; at every Extension it descends through, the prefix is
\* unchanged; when an Extension is split, its child subtree is re-linked
\* unchanged.
C24_InsertFrame ==
    \A k \in Keys, v \in Values :
        insert_at_Frame(root, AfterInsert(k, v), from_raw(k))

\* the root is an Extension over a Branch with two Leaves: inserting 2010
\* splits it at its first nibble and keeps an Extension over the Branch,
\* inserting 10 or 1020 splits it before its last nibble and links the
\* Branch itself, inserting 1010 again descends through both and changes
\* one child of the Branch
C24_Witness ==
    /\ Stored = {<<16, 16>>, <<16, 17>>}
    /\ root.type = "Extension"
    /\ root.prefix = <<1, 0, 1>>
    /\ AfterInsert(<<32, 16>>, <<200>>).children[1]
           = Extension(<<0, 1>>, root.next)
    /\ AfterInsert(<<16>>, <<200>>).next.children[1] = root.next
    /\ AfterInsert(<<16, 32>>, <<200>>).next.children[1] = root.next
    /\ AfterInsert(<<16, 16>>, LongValue).prefix = root.prefix
    /\ AfterInsert(<<16, 16>>, LongValue).next.children[1] = root.next.children[1]
    /\ AfterInsert(<<16, 16>>, LongValue).next.children[0] /= root.next.children[0]

\* the walk of verify_proof_recursive over a non-empty proof ends at a
\* node: the last item it looks at decodes to a Null, a Leaf, or a Branch
\* reached with no nibbles left
EndsAtNode(nibbles, proof) ==
    LET stop == StopsAt(nibbles, proof, 0)
        decoded == decode(At(proof, stop.index))
    IN  /\ decoded.ok
        /\ \/ decoded.node.type = "Null"
           \/ decoded.node.type = "Leaf"
           \/ decoded.node.type = "Branch" /\ stop.nibbles = <<>>

\* the items appended to a proof: each item of Proofs on its own, and every
\* list of up to MaxProofLen items drawn from two node encodings that
\* would yield a value if looked at and two undecodable items
ExtraItems ==
    {<<item>> : item \in NodeItems \cup MalformedItems}
        \cup UNION {[1..n -> {LeafItem, BranchItem, <<>>, <<197, 1>>}] :
                       n \in 1..MaxProofLen}

\* C25: verify_proof ignores every proof item after the one at which the
\* walk ends: for a proof on which the walk for the key ends at a Null, a
\* Leaf, or a Branch reached with no nibbles left, appending any items,
\* undecodable ones included, does not change the result.
C25_ItemsAfterEndIgnored ==
    ret.op = "verify_proof" /\ call.proof /= <<>> =>
        (EndsAtNode(from_raw(call.key), call.proof) =>
            \A extra \in ExtraItems :
                verify_proof(call.root_hash, call.key, call.proof \o extra)
                    = ret.value)

\* the walk for the key 10 passes the Branch and ends at the Leaf [0]; the
\* third item has no bytes at all; the result is the Leaf's value, as it
\* is with any item appended
C25_Witness ==
    /\ ret.op = "verify_proof"
    /\ call.proof = <<BranchItem, LeafItem>>
    /\ call.key = <<16>>
    /\ call.root_hash = compute_hash(BranchItem)
    /\ EndsAtNode(from_raw(call.key), call.proof)
    /\ StopsAt(from_raw(call.key), call.proof, 0).index = 1
    /\ ret.value = Some(<<200>>)
    /\ verify_proof(call.root_hash, call.key, call.proof \o << <<>> >>)
           = Some(<<200>>)
    /\ verify_proof(call.root_hash, call.key, call.proof \o <<BranchItem, <<5>> >>)
           = Some(<<200>>)

\* the value-bearing positions at and below a node that is reached by the
\* nibbles of `path`: each Leaf with path \o key, each Branch whose value
\* is present with path; below an Extension the path grows by the prefix,
\* below a Branch by the index of the child
RECURSIVE Positions(_, _)
Positions(node, path) ==
    CASE node.type = "Leaf" ->
            {[path |-> path \o node.key, value |-> node.value]}
      [] node.type = "Extension" ->
            Positions(node.next, path \o node.prefix)
      [] node.type = "Branch" ->
            (IF node.value.some
                 THEN {[path |-> path, value |-> node.value.val]}
                 ELSE {})
              \cup UNION {Positions(node.children[i], path \o <<i>>) :
                             i \in 0..15}
      [] OTHER -> {}

\* the number of Leaf nodes and present Branch values at and below a node
RECURSIVE CountPositions(_)

\* the positions below four children of a Branch, from child i on
CountFour(children, i) ==
    CountPositions(children[i]) + CountPositions(children[i + 1])
        + CountPositions(children[i + 2]) + CountPositions(children[i + 3])

CountPositions(node) ==
    CASE node.type = "Leaf" -> 1
      [] node.type = "Extension" -> CountPositions(node.next)
      [] node.type = "Branch" ->
            (IF node.value.some THEN 1 ELSE 0)
              + CountFour(node.children, 0) + CountFour(node.children, 4)
              + CountFour(node.children, 8) + CountFour(node.children, 12)
      [] OTHER -> 0

\* C26: in every reachable trie the values held in the tree are exactly
\* the stored mappings: the number of Leaf nodes and present Branch values
\* equals the number of distinct inserted keys, and the nibble path from
\* the root to each of them is the nibble sequence of exactly one inserted
\* key (and the value there is the value stored for that key).
C26_ValuesAreStoredMappings ==
    LET positions == Positions(root, <<>>)
    IN  /\ CountPositions(root) = Cardinality(Stored)
        /\ Cardinality(positions) = CountPositions(root)
        /\ \A p \in positions :
               Cardinality({k \in Stored : from_raw(k) = p.path}) = 1
        /\ positions = {[path |-> from_raw(k), value |-> kv[k].val] : k \in Stored}

\* three keys stored under an Extension: one in the value slot of a
\* Branch, holding the empty value, and two in Leaves
C26_Witness ==
    /\ Stored = {<<16>>, <<16, 16>>, <<16, 32>>}
    /\ kv[<<16>>] = Some(<<>>)
    /\ root.type = "Extension"
    /\ root.next.value = Some(<<>>)
    /\ CountPositions(root) = 3
    /\ [path |-> <<1, 0>>, value |-> <<>>] \in Positions(root, <<>>)
    /\ [path |-> <<1, 0, 2, 0>>, value |-> kv[<<16, 32>>].val]
           \in Positions(root, <<>>)

====
